---- MODULE Spec2Model ----
(***************************************************************************)
(* A model of HTMLBuilder (the template engine of the context menu).       *)
(*                                                                         *)
(* A JavaScript string is a sequence of one-character strings, so that     *)
(* trim, split, replace and the regular expression of the builder are      *)
(* computed character by character.  A JavaScript object is a record: a    *)
(* property the object does not have is a field the record does not have.  *)
(* The document is a function from node identifiers to element records.    *)
(***************************************************************************)
EXTENDS Integers, Sequences, FiniteSets, TLC

(***************************************************************************)
(* Characters                                                              *)
(***************************************************************************)

\* \d of the regular expressions
Digits == {"0", "1", "2", "3", "4", "5", "6", "7", "8", "9"}

\* the letters a-z (the templates of the model are written in lower case)
Letters ==
    {"a", "b", "c", "d", "e", "f", "g", "h", "i", "j", "k", "l", "m",
     "n", "o", "p", "q", "r", "s", "t", "u", "v", "w", "x", "y", "z"}

\* \w of the regular expressions
WordChars == Letters \cup Digits \cup {"_"}

\* [\w-] of REGEX
WordOrDashChars == WordChars \cup {"-"}

\* [\w;-] of REGEX
EventChars == WordChars \cup {";", "-"}

\* the white space String.prototype.trim removes
SpaceChars == {" ", "\t", "\n"}

(***************************************************************************)
(* String.prototype operations                                             *)
(***************************************************************************)

\* s.substring(from - 1, to): the characters from..to (1-based, inclusive)
Sub(s, from, to) == IF from > to THEN <<>> ELSE SubSeq(s, from, to)

\* the first index >= from of s whose character is not in set, else Len(s) + 1
RECURSIVE SkipWhile(_, _, _)
SkipWhile(s, from, set) ==
    IF from > Len(s) THEN Len(s) + 1
    ELSE IF s[from] \in set THEN SkipWhile(s, from + 1, set)
    ELSE from

\* the last index <= from of s whose character is not in set, else 0
RECURSIVE SkipBack(_, _, _)
SkipBack(s, from, set) ==
    IF from < 1 THEN 0
    ELSE IF s[from] \in set THEN SkipBack(s, from - 1, set)
    ELSE from

\* s.trim()
Trim(s) == Sub(s, SkipWhile(s, 1, SpaceChars), SkipBack(s, Len(s), SpaceChars))

\* the first index >= from of s that holds the character c; 0 when there is none
RECURSIVE IndexFrom(_, _, _)
IndexFrom(s, c, from) ==
    IF from > Len(s) THEN 0
    ELSE IF s[from] = c THEN from
    ELSE IndexFrom(s, c, from + 1)

\* s.indexOf(c) for a one-character c, 1-based; 0 when c does not occur
IndexOf(s, c) == IndexFrom(s, c, 1)

\* the last index > from of s that holds the character c; 0 when there is none
RECURSIVE LastIndexAfter(_, _, _)
LastIndexAfter(s, c, from) ==
    LET i == IndexFrom(s, c, from + 1)
    IN  IF i = 0 THEN 0
        ELSE LET j == LastIndexAfter(s, c, i)
             IN  IF j = 0 THEN i ELSE j

\* s.split(c) for a one-character separator c
RECURSIVE Split(_, _)
Split(s, c) ==
    LET i == IndexOf(s, c)
    IN  IF i = 0 THEN <<s>>
        ELSE <<Sub(s, 1, i - 1)>> \o Split(Sub(s, i + 1, Len(s)), c)

\* array.filter((v) => v !== "")
RECURSIVE FilterNonEmpty(_)
FilterNonEmpty(a) ==
    IF a = <<>> THEN <<>>
    ELSE IF Head(a) = <<>> THEN FilterNonEmpty(Tail(a))
    ELSE <<Head(a)>> \o FilterNonEmpty(Tail(a))

\* s.startsWith(p)
StartsWith(s, p) == Len(s) >= Len(p) /\ SubSeq(s, 1, Len(p)) = p

\* the first index >= from at which p occurs in s; 0 when it does not occur
RECURSIVE Find(_, _, _)
Find(s, p, from) ==
    IF from + Len(p) - 1 > Len(s) THEN 0
    ELSE IF SubSeq(s, from, from + Len(p) - 1) = p THEN from
    ELSE Find(s, p, from + 1)

\* s.replace(p, r) with a string pattern: the first occurrence only
Replace(s, p, r) ==
    LET i == Find(s, p, 1)
    IN  IF i = 0 THEN s
        ELSE Sub(s, 1, i - 1) \o r \o Sub(s, i + Len(p), Len(s))

\* c.repeat(n)
RECURSIVE Repeat(_, _)
Repeat(c, n) == IF n <= 0 THEN <<>> ELSE <<c>> \o Repeat(c, n - 1)

\* /\d/.test(x[0]): x[0] of an empty string is undefined, which test() reads
\* as the text "undefined": no digit
DigitFirst(x) == x # <<>> /\ x[1] \in Digits

\* the first index >= from of s whose character is in set; 0 when there is none
RECURSIVE FirstIn(_, _, _)
FirstIn(s, from, set) ==
    IF from > Len(s) THEN 0
    ELSE IF s[from] \in set THEN from
    ELSE FirstIn(s, from + 1, set)

\* the value of a property that is not there, of a capture group that did
\* not take part in the match
Undefined == <<"undefined">>

\* the truth value JavaScript gives a string or undefined
Truthy(v) == v # Undefined /\ v # <<>>

\* whether the object has a truthy property of that name
Has(obj, prop) == prop \in DOMAIN obj /\ Truthy(obj[prop])

(***************************************************************************)
(* REGEX, the regular expression of a line: a tag of word characters,     *)
(* then, each optional, the classes (a run of "." + word-or-dash           *)
(* characters), the id ("#" + word-or-dash characters), the content        *)
(* between "(" and ")", the attributes between "[" and "]", and a run of   *)
(* event groups ("@" + word, ";" or dash characters).                      *)
(* It is not anchored: the match starts at the first word character of the *)
(* line.  Every group after the tag is optional and nothing follows them,  *)
(* so the greedy choice at each group is the match.                        *)
(***************************************************************************)

\* the classes group from position p: the position after the last class
RECURSIVE ClassesEnd(_, _)
ClassesEnd(line, p) ==
    IF p <= Len(line) /\ line[p] = "."
    THEN ClassesEnd(line, SkipWhile(line, p + 1, WordOrDashChars))
    ELSE p

\* the event groups from position p: the end position and the capture of the
\* last repetition (a repeated group keeps its last capture only)
RECURSIVE EventsEnd(_, _, _)
EventsEnd(line, p, last) ==
    IF p <= Len(line) /\ line[p] = "@"
    THEN LET q == SkipWhile(line, p + 1, EventChars)
         IN  EventsEnd(line, q, Sub(line, p + 1, q - 1))
    ELSE [end |-> p, capture |-> last]

\* an enclosed group from position p: its inside is greedy and runs to the
\* last close of the line
Enclosed(line, p, open, close) ==
    LET c == IF p <= Len(line) /\ line[p] = open
             THEN LastIndexAfter(line, close, p) ELSE 0
    IN  IF c = 0 THEN [end |-> p, capture |-> Undefined]
        ELSE [end |-> c + 1, capture |-> Sub(line, p + 1, c - 1)]

\* this.REGEX.exec(line) || []: the capture groups 1..6
REGEX(line) ==
    LET s == FirstIn(line, 1, WordChars)
    IN  IF s = 0 THEN [m \in 1..6 |-> Undefined]
        ELSE
        LET e1 == SkipWhile(line, s, WordChars)
            e2 == ClassesEnd(line, e1)
            e3 == IF e2 <= Len(line) /\ line[e2] = "#"
                  THEN SkipWhile(line, e2 + 1, WordOrDashChars) ELSE e2
            g4 == Enclosed(line, e3, "(", ")")
            g5 == Enclosed(line, g4.end, "[", "]")
            g6 == EventsEnd(line, g5.end, Undefined)
        IN  <<Sub(line, s, e1 - 1),
              IF e2 > e1 THEN Sub(line, e1, e2 - 1) ELSE Undefined,
              IF e3 > e2 THEN Sub(line, e2, e3 - 1) ELSE Undefined,
              g4.capture, g5.capture, g6.capture>>

(***************************************************************************)
(* The document                                                            *)
(***************************************************************************)

\* document.createElement(tagname) fails with InvalidCharacterError when the
\* name is no element name; of the names \w+ matches, those that begin with
\* a digit
ValidTagName(tagname) == ~DigitFirst(tagname)

\* element.setAttribute(name, _) fails with InvalidCharacterError when the
\* name is no attribute name.  Every DOM refuses the empty name and a name
\* holding white space, "/", "=" or ">"; a DOM that validates names as XML
\* names (xml = TRUE) also refuses a name that begins with a digit
ValidAttrName(name, xml) ==
    /\ name # <<>>
    /\ \A i \in 1..Len(name) : name[i] \notin SpaceChars \cup {"/", "=", ">"}
    /\ xml => /\ name[1] \in Letters \cup {"_", ":"}
              /\ \A i \in 1..Len(name) : name[i] \in WordChars \cup {"-", ".", ":"}

\* document.createElement(tagname): an element with nothing set
NewElement(tagname, src) ==
    [tagName |-> tagname, classList |-> <<>>, attributes |-> <<>>, id |-> <<>>,
     text |-> <<>>, listeners |-> <<>>, children |-> <<>>, src |-> src]

\* element.classList.add(c): a token set, kept in insertion order
ClassListAdd(classList, c) ==
    IF \E i \in 1..Len(classList) : classList[i] = c THEN classList
    ELSE Append(classList, c)

\* element.setAttribute(name, value) on a valid name: the value of an
\* attribute already there is replaced in place
SetAttribute(attributes, name, value) ==
    IF \E i \in 1..Len(attributes) : attributes[i].name = name
    THEN [i \in 1..Len(attributes) |->
             IF attributes[i].name = name
             THEN [name |-> name, value |-> value] ELSE attributes[i]]
    ELSE Append(attributes, [name |-> name, value |-> value])

\* element.addEventListener(type, callback, options): a listener already
\* there (same type, same callback) is not added again
AddEventListener(listeners, type, callback) ==
    LET l == [type |-> type, callback |-> callback]
    IN  IF \E i \in 1..Len(listeners) : listeners[i] = l THEN listeners
        ELSE Append(listeners, l)

\* the character references the model decodes; the HTML parser reads each
\* of them with or without its final ";"
Entities ==
    {[name |-> <<"a", "m", "p">>, char |-> "&"],
     [name |-> <<"l", "t">>, char |-> "<"],
     [name |-> <<"g", "t">>, char |-> ">"]}

\* txt.innerHTML = content; return txt.value
RECURSIVE DecodeHTMLEntities(_)
DecodeHTMLEntities(content) ==
    IF content = <<>> THEN <<>>
    ELSE IF Head(content) = "&"
            /\ \E e \in Entities : StartsWith(Tail(content), e.name)
    THEN LET e == CHOOSE e \in Entities : StartsWith(Tail(content), e.name)
             rest == Sub(content, Len(e.name) + 2, Len(content))
         IN  <<e.char>> \o DecodeHTMLEntities(
                 IF rest # <<>> /\ Head(rest) = ";" THEN Tail(rest) ELSE rest)
    ELSE <<Head(content)>> \o DecodeHTMLEntities(Tail(content))

(***************************************************************************)
(* HTMLBuilder: the pure methods.  Indexes are those of the code plus one  *)
(* (sequences start at 1); null is Null, or 0 where the code returns an    *)
(* index.                                                                  *)
(***************************************************************************)

\* null
Null == [null |-> TRUE]

\* this.SYMBOL_BETWEEN_ATTRIBUTES, as the constructor sets it
SYMBOL_BETWEEN_ATTRIBUTES == ";"

\* _level(line): the number of leading ">"
Level(line) == SkipWhile(line, 1, {">"}) - 1

\* lines.splice(i, 1)
Splice(a, i) == Sub(a, 1, i - 1) \o Sub(a, i + 1, Len(a))

\* the loop of _extractLinesFrom from index i on: line i is trimmed and, when
\* that leaves it empty, removed; then i grows by one all the same
RECURSIVE ExtractLoop(_, _)
ExtractLoop(lines, i) ==
    IF i > Len(lines) THEN lines
    ELSE LET trimmed == [lines EXCEPT ![i] = Trim(lines[i])]
         IN  IF trimmed[i] = <<>>
             THEN ExtractLoop(Splice(trimmed, i), i + 1)
             ELSE ExtractLoop(trimmed, i + 1)

\* _extractLinesFrom(template)
ExtractLinesFrom(template) == ExtractLoop(Split(Trim(template), "\n"), 1)

\* indentTemplate changed to add one marker whatever the indentation
IndentTemplateByOne(template, indentation) ==
    LET lines == ExtractLinesFrom(template)
        Add[n \in 0..Len(lines)] ==
            IF n = 0 THEN <<>>
            ELSE Add[n - 1] \o <<">">> \o Trim(lines[n]) \o <<"\n">>
    IN  Trim(Add[Len(lines)])

\* indentTemplate(template, indentation)
IndentTemplate(template, indentation) ==
    LET lines == ExtractLinesFrom(template)
        Add[n \in 0..Len(lines)] ==
            IF n = 0 THEN <<>>
            ELSE Add[n - 1] \o Repeat(">", indentation) \o Trim(lines[n]) \o <<"\n">>
    IN  Trim(Add[Len(lines)])

\* _searchForEvent changed to return the last binding of that name
SearchForLastEvent(EVENTS, name) ==
    IF \E i \in 1..Len(EVENTS) : EVENTS[i].name = name
    THEN EVENTS[CHOOSE i \in 1..Len(EVENTS) :
                   /\ EVENTS[i].name = name
                   /\ \A j \in (i + 1)..Len(EVENTS) : EVENTS[j].name # name]
    ELSE Null

\* _searchForEvent(name) in the registry EVENTS
SearchForEvent(EVENTS, name) ==
    IF \E i \in 1..Len(EVENTS) : EVENTS[i].name = name
    THEN EVENTS[CHOOSE i \in 1..Len(EVENTS) :
                   /\ EVENTS[i].name = name
                   /\ \A j \in 1..(i - 1) : EVENTS[j].name # name]
    ELSE Null

\* the loop over the classes of a line
RECURSIVE AddClasses(_, _)
AddClasses(classList, classes) ==
    IF classes = <<>> THEN classList
    ELSE IF DigitFirst(Head(classes)) THEN AddClasses(classList, Tail(classes))
    ELSE AddClasses(ClassListAdd(classList, Head(classes)), Tail(classes))

\* the body of the loop over the attributes, for one entry: the digit test
\* reads the entry as split, before it is trimmed
SetOneAttribute(acc, attr, xml) ==
    IF acc.thrown \/ DigitFirst(attr) THEN acc
    ELSE LET entry == Trim(attr)
             parts == Split(entry, "=")
             name  == IF IndexOf(entry, "=") # 0 THEN parts[1] ELSE entry
             value == IF IndexOf(entry, "=") # 0 THEN parts[2] ELSE <<>>
         IN  IF ValidAttrName(name, xml)
             THEN [acc EXCEPT !.attributes = SetAttribute(@, name, value)]
             ELSE [acc EXCEPT !.thrown = TRUE]

\* the loop over the attributes of a line; setAttribute may throw
RECURSIVE SetAttributes(_, _, _)
SetAttributes(acc, attributes, xml) ==
    IF attributes = <<>> THEN acc
    ELSE SetAttributes(SetOneAttribute(acc, Head(attributes), xml),
                       Tail(attributes), xml)

\* the loop over the event names of a line
RECURSIVE AddListeners(_, _, _)
AddListeners(listeners, events, EVENTS) ==
    IF events = <<>> THEN listeners
    ELSE IF DigitFirst(Head(events))
    THEN AddListeners(listeners, Tail(events), EVENTS)
    ELSE LET event == SearchForEvent(EVENTS, Head(events))
         IN  AddListeners(IF event # Null
                          THEN AddEventListener(listeners, event.type, event.callback)
                          ELSE listeners,
                          Tail(events), EVENTS)

\* _createElementFromLine(line) after the attributes are set (attrs is what
\* the loop over the attributes left): the rest of the method
ElementOfMatches(matches, attrs, src, EVENTS) ==
    IF attrs.thrown THEN [error |-> "dom"]
    ELSE [error |-> "none",
          element |->
            [NewElement(matches[1], src) EXCEPT
                !.classList  = AddClasses(<<>>,
                                   IF Truthy(matches[2])
                                   THEN FilterNonEmpty(Split(matches[2], "."))
                                   ELSE <<>>),
                !.attributes = attrs.attributes,
                !.id         = IF Truthy(matches[3])
                               THEN Replace(matches[3], <<"#">>, <<>>) ELSE <<>>,
                !.text       = IF Truthy(matches[4])
                               THEN DecodeHTMLEntities(matches[4]) ELSE <<>>,
                !.listeners  = AddListeners(<<>>,
                                   IF Truthy(matches[6])
                                   THEN FilterNonEmpty(Split(matches[6], ";"))
                                   ELSE <<>>,
                                   EVENTS)]]

\* _createElementFromLine(line) from the result of REGEX.exec(line) on
CreateElementFromMatches(matches, src, EVENTS, xml) ==
    IF ~Truthy(matches[1]) THEN [error |-> "parse"]
    ELSE IF ~ValidTagName(matches[1]) THEN [error |-> "dom"]
    ELSE ElementOfMatches(
             matches,
             SetAttributes([thrown |-> FALSE, attributes |-> <<>>],
                           IF Truthy(matches[5])
                           THEN Split(matches[5], SYMBOL_BETWEEN_ATTRIBUTES)
                           ELSE <<>>,
                           xml),
             src, EVENTS)

\* _createElementFromLine(line): error is "parse" for the Error of the
\* method, "dom" for an exception of createElement or setAttribute, "none"
\* when the element is returned.  src is the index of the line, kept on the
\* element to tell which line made it
CreateElementFromLine(line, src, EVENTS, xml) ==
    CreateElementFromMatches(REGEX(line), src, EVENTS, xml)

\* _maxLevel(children): children is a sequence of <<element, level>>
MaxLevel(children) ==
    LET Max[n \in 1..Len(children)] ==
            IF n = 1 THEN children[1][2]
            ELSE IF children[n][2] > Max[n - 1] THEN children[n][2] ELSE Max[n - 1]
    IN  Max[Len(children)]

\* _getIndexOfDeepestElement(children); lastIndex starts at the second index
GetIndexOfDeepestElement(children) ==
    LET max == MaxLevel(children)
        Last[n \in 0..Len(children)] ==
            IF n = 0 THEN 2
            ELSE IF children[n][2] = max THEN n ELSE Last[n - 1]
    IN  IF max = 1 THEN Len(children) ELSE Last[Len(children)]

\* _getIndexOfNearestParentElementOf changed to stop at the first element one
\* level up instead of the last
GetIndexOfFirstParentElementOf(indexOfDeepest, children) ==
    LET deepest == children[indexOfDeepest][2]
        up      == {n \in 1..(indexOfDeepest - 1) : children[n][2] = deepest - 1}
    IN  IF up = {} THEN 0 ELSE CHOOSE n \in up : \A h \in up : n <= h

\* _getIndexOfNearestParentElementOf(indexOfDeepest, children); 0 for null
GetIndexOfNearestParentElementOf(indexOfDeepest, children) ==
    LET deepest == children[indexOfDeepest][2]
        Last[n \in 0..(indexOfDeepest - 1)] ==
            IF n = 0 THEN 0
            ELSE IF children[n][2] = deepest - 1 THEN n ELSE Last[n - 1]
    IN  Last[indexOfDeepest - 1]

\* the first loop of generate: the lines of level 0, each with its index
MainLines(lines) ==
    LET Push[n \in 0..Len(lines)] ==
            IF n = 0 THEN <<>>
            ELSE IF Level(lines[n]) = 0 THEN Append(Push[n - 1], <<lines[n], n>>)
            ELSE Push[n - 1]
    IN  Push[Len(lines)]

(***************************************************************************)
(* The state                                                               *)
(***************************************************************************)

VARIABLES
    EVENTS,     \* this.EVENTS: the registry, a sequence of bindings
    xmlNames,   \* whether the DOM of the platform validates names as XML names
    doc,        \* the document: nodes (every element created, by identifier)
                \* and body (the children of this.parent, document.body)
    gen,        \* the call of generate: its position pc and its locals
    call,       \* the last call of bindEvent or clearEvents and how it ended
    menus,      \* the ContextMenu objects constructed, each with its menuid
    onclick     \* document.onclick: the ContextMenu whose constructor set it,
                \* 0 when it is not set

vars == <<EVENTS, xmlNames, doc, gen, call, menus, onclick>>

\* no call of generate yet
Idle ==
    [pc |-> "idle", template |-> <<>>, lines |-> <<>>, mainLines |-> <<>>,
     i |-> 0, mainElement |-> 0, childrenElements |-> <<>>, error |-> "none"]

(***************************************************************************)
(* The registry                                                            *)
(***************************************************************************)

\* bindEvent changed to push the binding before it looks for the callback
BindEventPushesFirst(events, event) ==
    IF ~Has(event, "name") THEN [EVENTS |-> events, error |-> TRUE]
    ELSE IF ~Has(event, "type") THEN [EVENTS |-> events, error |-> TRUE]
    ELSE IF "callback" \notin DOMAIN event
    THEN [EVENTS |-> Append(events, event), error |-> TRUE]
    ELSE [EVENTS |-> Append(events,
                        [event EXCEPT !.name =
                            IF StartsWith(event.name, <<"o", "n">>)
                            THEN Replace(event.name, <<"o", "n">>, <<>>)
                            ELSE event.name]),
          error |-> FALSE]

\* bindEvent changed to store the name as it is given
BindEventKeepsName(events, event) ==
    IF ~Has(event, "name") THEN [EVENTS |-> events, error |-> TRUE]
    ELSE IF ~Has(event, "type") THEN [EVENTS |-> events, error |-> TRUE]
    ELSE IF "callback" \notin DOMAIN event THEN [EVENTS |-> events, error |-> TRUE]
    ELSE [EVENTS |-> Append(events, event), error |-> FALSE]

\* bindEvent(event): the registry after the call, and whether the call threw;
\* a callback is a function, truthy whenever the property is there
BindEventResult(events, event) ==
    IF ~Has(event, "name") THEN [EVENTS |-> events, error |-> TRUE]
    ELSE IF ~Has(event, "type") THEN [EVENTS |-> events, error |-> TRUE]
    ELSE IF "callback" \notin DOMAIN event THEN [EVENTS |-> events, error |-> TRUE]
    ELSE LET name == IF StartsWith(event.name, <<"o", "n">>)
                     THEN Replace(event.name, <<"o", "n">>, <<>>)
                     ELSE event.name
         IN  [EVENTS |-> Append(events, [event EXCEPT !.name = name]),
              error |-> FALSE]

\* clearEvents changed to remove the last binding only
ClearEventsPops(events) == Sub(events, 1, Len(events) - 1)

\* clearEvents()
ClearEventsResult(events) == <<>>

(***************************************************************************)
(* generate(template), one step at a time.  pc is "main" at the head of    *)
(* the loop over the main lines, "while" at the head of the loop that      *)
(* places the children, "returned" after the return and "thrown" after an  *)
(* exception left the method.                                              *)
(***************************************************************************)

\* generate after the lines are extracted, up to the loop over the main lines
Entered(template, lines) ==
    [Idle EXCEPT !.pc = "main", !.template = template, !.lines = lines,
                 !.mainLines = MainLines(lines), !.i = 1]

\* generate up to the loop over the main lines
GenerateEnter(template) ==
    IF Trim(template) = <<>>
    THEN [Idle EXCEPT !.pc = "returned", !.template = template]
    ELSE Entered(template, ExtractLinesFrom(template))

\* the loop that creates the children of a main element: the lines k..last
\* are created in order; the first one that throws ends the loop.  child is
\* what _createElementFromLine gave for line k
RECURSIVE CreateChildren(_, _, _, _, _, _, _)
\* the loop changed to go on to the next line when a line gives no element
PushChildSkipsFailure(child, lines, k, last, nodes, children, events, xml) ==
    IF child.error # "none"
    THEN CreateChildren(lines, k + 1, last, nodes, children, events, xml)
    ELSE CreateChildren(lines, k + 1, last,
                        Append(nodes, child.element),
                        Append(children, <<Len(nodes) + 1, Level(lines[k])>>),
                        events, xml)

PushChild(child, lines, k, last, nodes, children, events, xml) ==
    IF child.error # "none"
    THEN [error |-> child.error, nodes |-> nodes, children |-> children]
    ELSE CreateChildren(lines, k + 1, last,
                        Append(nodes, child.element),
                        Append(children, <<Len(nodes) + 1, Level(lines[k])>>),
                        events, xml)

CreateChildren(lines, k, last, nodes, children, events, xml) ==
    IF k > last THEN [error |-> "none", nodes |-> nodes, children |-> children]
    ELSE PushChild(CreateElementFromLine(lines[k], k, events, xml),
                   lines, k, last, nodes, children, events, xml)

\* the body of the loop over the main lines once the elements of the block
\* are created (made), up to the loop that places the children
BlockCreated(g, d, made, events) ==
    [gen |-> [g EXCEPT !.pc = IF made.error # "none" THEN "thrown" ELSE "while",
                       !.error = made.error,
                       !.mainElement = Len(d.nodes) + 1,
                       !.childrenElements = made.children],
     doc |-> [d EXCEPT !.nodes = made.nodes],
     EVENTS |-> events]

\* the body of the loop over the main lines once the main element is
\* created (main): the children are the lines up to the next main line
MainCreated(g, d, main, events, xml) ==
    IF main.error # "none"
    THEN [gen |-> [g EXCEPT !.pc = "thrown", !.error = main.error],
          doc |-> d, EVENTS |-> events]
    ELSE BlockCreated(
             g, d,
             CreateChildren(g.lines,
                            g.mainLines[g.i][2] + 1,
                            (IF g.i + 1 <= Len(g.mainLines)
                             THEN g.mainLines[g.i + 1][2] ELSE Len(g.lines) + 1) - 1,
                            Append(d.nodes, main.element), <<>>, events, xml),
             events)

\* generate changed to clear the registry before it returns
GenerateMainClearsEvents(g, d, events, xml) ==
    IF g.i > Len(g.mainLines)
    THEN [gen |-> [g EXCEPT !.pc = "returned"], doc |-> d, EVENTS |-> <<>>]
    ELSE MainCreated(g, d,
                     CreateElementFromLine(g.mainLines[g.i][1], g.mainLines[g.i][2],
                                           events, xml),
                     events, xml)

\* the head of the loop over the main lines, and the body of the loop up to
\* the loop that places the children
GenerateMain(g, d, events, xml) ==
    IF g.i > Len(g.mainLines)
    THEN [gen |-> [g EXCEPT !.pc = "returned"], doc |-> d, EVENTS |-> events]
    ELSE MainCreated(g, d,
                     CreateElementFromLine(g.mainLines[g.i][1], g.mainLines[g.i][2],
                                           events, xml),
                     events, xml)

\* parent.prepend(child)
Prepend(nodes, parent, child) ==
    [nodes EXCEPT ![parent].children = <<child>> \o @]

\* the turn of the loop changed to leave the pair in the list
PlaceDeepestKeepsPair(g, d, indexOfDeepest, indexOfNearestParent, events) ==
    [gen |-> g,
     doc |-> [d EXCEPT !.nodes =
                 Prepend(@,
                         IF indexOfNearestParent # 0
                         THEN g.childrenElements[indexOfNearestParent][1]
                         ELSE g.mainElement,
                         g.childrenElements[indexOfDeepest][1])],
     EVENTS |-> events]

\* one turn of the loop that places the children: the deepest element is
\* prepended to its nearest parent, or to the main element, and leaves the list
PlaceDeepest(g, d, indexOfDeepest, indexOfNearestParent, events) ==
    [gen |-> [g EXCEPT !.childrenElements = Splice(@, indexOfDeepest)],
     doc |-> [d EXCEPT !.nodes =
                 Prepend(@,
                         IF indexOfNearestParent # 0
                         THEN g.childrenElements[indexOfNearestParent][1]
                         ELSE g.mainElement,
                         g.childrenElements[indexOfDeepest][1])],
     EVENTS |-> events]

\* the nearest parent of the deepest element is looked for
PlaceAt(g, d, indexOfDeepest, events) ==
    PlaceDeepest(g, d, indexOfDeepest,
                 GetIndexOfNearestParentElementOf(indexOfDeepest, g.childrenElements),
                 events)

\* generate changed to prepend the main element to the parent
GenerateWhilePrependsMain(g, d, events) ==
    IF g.childrenElements = <<>>
    THEN [gen |-> [g EXCEPT !.pc = "main", !.i = @ + 1],
          doc |-> [d EXCEPT !.body = <<g.mainElement>> \o @], EVENTS |-> events]
    ELSE PlaceAt(g, d, GetIndexOfDeepestElement(g.childrenElements), events)

\* generate changed to clear the registry when it appends a main element
GenerateWhileClearsEvents(g, d, events) ==
    IF g.childrenElements = <<>>
    THEN [gen |-> [g EXCEPT !.pc = "main", !.i = @ + 1],
          doc |-> [d EXCEPT !.body = Append(@, g.mainElement)], EVENTS |-> <<>>]
    ELSE PlaceAt(g, d, GetIndexOfDeepestElement(g.childrenElements), events)

\* the head of the loop that places the children and one turn of it; after
\* the loop, this.parent.appendChild(mainElement) and the next main line
GenerateWhile(g, d, events) ==
    IF g.childrenElements = <<>>
    THEN [gen |-> [g EXCEPT !.pc = "main", !.i = @ + 1],
          doc |-> [d EXCEPT !.body = Append(@, g.mainElement)], EVENTS |-> events]
    ELSE PlaceAt(g, d, GetIndexOfDeepestElement(g.childrenElements), events)

\* one step of generate
GenerateStep(g, d, events, xml) ==
    IF g.pc = "main" THEN GenerateMain(g, d, events, xml)
    ELSE IF g.pc = "while" THEN GenerateWhile(g, d, events)
    ELSE [gen |-> g, doc |-> d, EVENTS |-> events]

\* generate(template) from the call to its end
RECURSIVE GenerateRun(_, _)
GenerateRun(n, xml) ==
    IF n.gen.pc \in {"main", "while"}
    THEN GenerateRun(GenerateStep(n.gen, n.doc, n.EVENTS, xml), xml)
    ELSE n

\* generate(template) seen from its caller: the final position, the
\* document and the registry
Generate(template, d, events, xml) ==
    GenerateRun([gen |-> GenerateEnter(template), doc |-> d, EVENTS |-> events], xml)

(***************************************************************************)
(* The inputs of the model                                                 *)
(***************************************************************************)

\* the longest template of the tree specification, in lines
MaxLines == 4

\* the largest registry
MaxEvents == 2

\* lines.join("\n")
RECURSIVE Join(_)
Join(ls) ==
    IF Len(ls) = 0 THEN <<>>
    ELSE IF Len(ls) = 1 THEN ls[1]
    ELSE ls[1] \o <<"\n">> \o Join(Tail(ls))

\* the templates of at most n lines taken from pool
Templates(pool, n) == {Join(ls) : ls \in UNION {[1..m -> pool] : m \in 1..n}}

\* the lines of the tree specification: a tag at the levels 0..3, a line
\* without a tag, a blank line and a line written with leading white space
TreeLines ==
    {Repeat(">", l) \o <<"a">> : l \in 0..3}
        \cup {<<">", ".">>, <<>>, <<" ", ">", "a">>}

TreeTemplates == Templates(TreeLines, MaxLines)

\* a line written from its parts: the tag "a", the classes, the attribute
\* entries (each a pad of white space, a name and, unless bare, a value) and
\* the event names
RECURSIVE JoinBy(_, _)
JoinBy(parts, sep) ==
    IF Len(parts) = 0 THEN <<>>
    ELSE IF Len(parts) = 1 THEN parts[1]
    ELSE parts[1] \o <<sep>> \o JoinBy(Tail(parts), sep)

RECURSIVE ClassesText(_)
ClassesText(classes) ==
    IF classes = <<>> THEN <<>>
    ELSE <<".">> \o Head(classes) \o ClassesText(Tail(classes))

EntryText(entry) ==
    entry.pad \o entry.name
        \o (IF entry.value = Undefined THEN <<>> ELSE <<"=">> \o entry.value)

LineOf(c) ==
    <<"a">> \o ClassesText(c.classes)
        \o (IF c.attrs = <<>> THEN <<>>
            ELSE <<"[">>
                 \o JoinBy([i \in 1..Len(c.attrs) |-> EntryText(c.attrs[i])],
                           SYMBOL_BETWEEN_ATTRIBUTES)
                 \o <<"]">>)
        \o (IF c.events = <<>> THEN <<>> ELSE <<"@">> \o JoinBy(c.events, ";"))

\* the template of a case: the line as a main line and as its child
TemplateOf(c) == LineOf(c) \o <<"\n", ">">> \o LineOf(c)

\* the names of the bindings and of the tokens
NameC == <<"c">>
NameOnC == <<"o", "n", "c">>
NameOnOnC == <<"o", "n", "o", "n", "c">>
Name1b == <<"1", "b">>
Click == <<"c", "l", "i", "c", "k">>

Bare(pad, name) == [pad |-> pad, name |-> name, value |-> Undefined]
Pair(pad, name, value) == [pad |-> pad, name |-> name, value |-> value]
Case(classes, attrs, events) ==
    [classes |-> classes, attrs |-> attrs, events |-> events]

\* lines that name events of the registry
EventCases ==
    {Case(<<>>, <<>>, <<NameC>>),
     Case(<<>>, <<>>, <<NameOnC>>),
     Case(<<>>, <<>>, <<NameOnC, NameC>>)}

\* lines with a token that begins with a digit: a class, an attribute or an
\* event name, first or last of its list, the attribute also written with
\* white space after the delimiter
DigitCases ==
    {Case(<<Name1b, NameC>>, <<>>, <<>>),
     Case(<<NameC, Name1b>>, <<>>, <<>>),
     Case(<<>>, <<Bare(<<>>, Name1b), Pair(<<>>, NameC, <<"d">>)>>, <<>>),
     Case(<<>>, <<Pair(<<>>, NameC, <<"d">>), Bare(<<>>, Name1b)>>, <<>>),
     Case(<<>>, <<Pair(<<>>, NameC, <<"d">>), Bare(<<" ">>, Name1b)>>, <<>>),
     Case(<<>>, <<>>, <<Name1b, NameC>>),
     Case(<<>>, <<>>, <<NameC, Name1b>>)}

LineCases == EventCases \cup DigitCases

LineTemplates == {TemplateOf(c) : c \in LineCases}

\* the arguments of bindEvent: bindings under the names "c", "onc" and
\* "ononc" and the empty name, and bindings without a name, a type or a
\* callback
Bindings ==
    [name : {NameC, NameOnC, NameOnOnC, <<>>}, type : {Click}, callback : {"f", "g"}]
        \cup {[type |-> Click, callback |-> "f"],
              [name |-> NameC, callback |-> "f"],
              [name |-> NameOnC, type |-> <<>>, callback |-> "f"],
              [name |-> NameC, type |-> Click]}

(***************************************************************************)
(* The actions                                                             *)
(***************************************************************************)

\* the registry and the outcome r of bindEvent(event) become the state
Bound(event, r) ==
    /\ EVENTS' = r.EVENTS
    /\ call' = [op |-> "bindEvent", event |-> event, error |-> r.error]

\* a step n of generate becomes the state
Stepped(n) ==
    /\ gen' = n.gen
    /\ doc' = n.doc
    /\ EVENTS' = n.EVENTS

\* builder.bindEvent(event), before any call of generate
BindEvent(event) ==
    /\ gen.pc = "idle"
    /\ Len(EVENTS) < MaxEvents
    /\ Bound(event, BindEventResult(EVENTS, event))
    /\ UNCHANGED <<xmlNames, doc, gen, menus, onclick>>

\* builder.clearEvents(), before any call of generate
ClearEvents ==
    /\ gen.pc = "idle"
    /\ EVENTS' = ClearEventsResult(EVENTS)
    /\ call' = [op |-> "clearEvents", event |-> Null, error |-> FALSE]
    /\ UNCHANGED <<xmlNames, doc, gen, menus, onclick>>

\* builder.generate(template) is called
GenerateCall(template) ==
    /\ gen.pc = "idle"
    /\ gen' = GenerateEnter(template)
    /\ UNCHANGED <<EVENTS, xmlNames, doc, call, menus, onclick>>

\* generate goes on by one step
GenerateNext ==
    /\ gen.pc \in {"main", "while"}
    /\ Stepped(GenerateStep(gen, doc, EVENTS, xmlNames))
    /\ UNCHANGED <<xmlNames, call, menus, onclick>>

\* after construction: new HTMLBuilder() on an empty document.body, before
\* any ContextMenu is constructed
Init ==
    /\ EVENTS = <<>>
    /\ xmlNames \in BOOLEAN
    /\ doc = [nodes |-> <<>>, body |-> <<>>]
    /\ gen = Idle
    /\ call = [op |-> "new", event |-> Null, error |-> FALSE]
    /\ menus = <<>>
    /\ onclick = 0

\* the tree specification: one call of generate on a template made of
\* TreeLines, with an empty registry
NextTree ==
    \/ \E template \in TreeTemplates : GenerateCall(template)
    \/ GenerateNext

SpecTree == Init /\ [][NextTree]_vars

\* the registry specification: calls of bindEvent and clearEvents, then one
\* call of generate on a template made of LineCases
Next ==
    \/ \E event \in Bindings : BindEvent(event)
    \/ ClearEvents
    \/ \E template \in LineTemplates : GenerateCall(template)
    \/ GenerateNext

Spec == Init /\ [][Next]_vars

(***************************************************************************)
(* Reading the document and the template, for the properties               *)
(***************************************************************************)

\* the identifiers of the elements created so far
Nodes == 1..Len(doc.nodes)

\* the elements of a sequence
Range(f) == {f[i] : i \in 1..Len(f)}

\* the element created from line k of gen.lines (0 when none was)
NodeOf(k) ==
    IF \E n \in Nodes : doc.nodes[n].src = k
    THEN CHOOSE n \in Nodes : doc.nodes[n].src = k
    ELSE 0

\* the element c is a child of the element p
IsChildOf(c, p) == p \in Nodes /\ c \in Range(doc.nodes[p].children)

\* the elements of the subtree of n
RECURSIVE Subtree(_)
Subtree(n) == {n} \cup UNION {Subtree(c) : c \in Range(doc.nodes[n].children)}

\* the level of line k, and whether line k is a main line
Depth(k) == Level(gen.lines[k])
IsMainLine(k) == gen.lines[k] = <<>> \/ gen.lines[k][1] # ">"

\* the main line that opens the block of line k (0 for a line before the
\* first main line: it is in no block)
BlockOf(k) ==
    LET before == {j \in 1..k : IsMainLine(j)}
    IN  IF before = {} THEN 0 ELSE CHOOSE j \in before : \A h \in before : h <= j

\* the descendant lines: the lines of a block that are not its main line
DescendantLines == {k \in 1..Len(gen.lines) : ~IsMainLine(k) /\ BlockOf(k) # 0}

\* the block opened by main line m has been appended to the parent
Appended(m) == NodeOf(m) # 0 /\ NodeOf(m) \in Range(doc.body)

\* the line whose element the spec makes the parent of descendant line k:
\* the last line before k in the block of k that is one level up, else the
\* main line of the block
ParentLine(k) ==
    LET up == {j \in (BlockOf(k) + 1)..(k - 1) : Depth(j) = Depth(k) - 1}
    IN  IF up = {} THEN BlockOf(k) ELSE CHOOSE j \in up : \A h \in up : h <= j

\* a line with no tag token: it holds no word character
Tagless(k) == \A i \in 1..Len(gen.lines[k]) : gen.lines[k][i] \notin WordChars

\* the lines of the blocks that hold no tag
TaglessLines == {k \in 1..Len(gen.lines) : BlockOf(k) # 0 /\ Tagless(k)}

\* generate is over
Over == gen.pc \in {"returned", "thrown"}

(***************************************************************************)
(* C1: in every block appended to the parent, each descendant line is the  *)
(* child of the element of the last line before it in the block that is    *)
(* exactly one level up, and a direct child of the main element of the     *)
(* block when the block holds no such line before it.                      *)
(***************************************************************************)
C1_NearestParent ==
    \A k \in DescendantLines :
        Appended(BlockOf(k)) => IsChildOf(NodeOf(k), NodeOf(ParentLine(k)))

\* generate returned after it placed a line under a line one level up that
\* is not the line just before it, and a line with no line one level up
C1_Witness ==
    /\ gen.pc = "returned"
    /\ \E k \in DescendantLines :
          /\ ParentLine(k) # BlockOf(k)
          /\ ParentLine(k) < k - 1
          /\ IsChildOf(NodeOf(k), NodeOf(ParentLine(k)))
    /\ \E k \in DescendantLines : Depth(k) > 1 /\ ParentLine(k) = BlockOf(k)

(***************************************************************************)
(* C2: after generate returned, the children of every element are in the   *)
(* order of the lines they were created from.                              *)
(***************************************************************************)
C2_ChildrenInLineOrder ==
    gen.pc = "returned" =>
        \A n \in Nodes :
            \A i, j \in 1..Len(doc.nodes[n].children) :
                i < j => doc.nodes[doc.nodes[n].children[i]].src
                             < doc.nodes[doc.nodes[n].children[j]].src

(***************************************************************************)
(* C3: after generate returned, the children of the parent container are   *)
(* the elements of the main lines, one for each, in the order of the       *)
(* lines, and nothing else.                                                *)
(***************************************************************************)
C3_OneTopLevelPerMainLine ==
    gen.pc = "returned" =>
        /\ Len(doc.body) = Cardinality({k \in 1..Len(gen.lines) : IsMainLine(k)})
        /\ \A i \in 1..Len(doc.body) : IsMainLine(doc.nodes[doc.body[i]].src)
        /\ \A i, j \in 1..Len(doc.body) :
              i < j => doc.nodes[doc.body[i]].src < doc.nodes[doc.body[j]].src

\* generate returned on a template of several main lines, with descendant
\* lines between them
C3_Witness ==
    /\ gen.pc = "returned"
    /\ Len(doc.body) >= 2
    /\ \E k \in DescendantLines : BlockOf(k) = 1
    /\ \A k \in 1..Len(gen.lines) : IsMainLine(k) => Appended(k)

(***************************************************************************)
(* C9: a line with no tag in a block makes generate fail; at that point    *)
(* the parent holds the main elements of the blocks before the block of    *)
(* the first such line, each with all the lines of its block under it,     *)
(* and no element of that block or of a later one.                         *)
(***************************************************************************)
C9_FailsAtFirstTaglessBlock ==
    /\ gen.pc = "returned" => TaglessLines = {}
    /\ gen.pc = "thrown" /\ gen.error = "parse" =>
          /\ TaglessLines # {}
          /\ LET t == CHOOSE k \in TaglessLines : \A h \in TaglessLines : k <= h
                 m == BlockOf(t)
             IN  /\ gen.mainLines[gen.i][2] = m
                 /\ \A k \in 1..Len(gen.lines) :
                       IsMainLine(k) /\ k < m => Appended(k)
                 /\ \A k \in 1..Len(gen.lines) :
                       BlockOf(k) # 0 /\ k < m
                           => NodeOf(k) \in Subtree(NodeOf(BlockOf(k)))
                 /\ \A r \in Range(doc.body) :
                       \A n \in Subtree(r) : doc.nodes[n].src < m

\* generate failed on a descendant line with no tag that is not in the first
\* block, the blocks before it holding descendant lines
C9_Witness ==
    /\ gen.pc = "thrown" /\ gen.error = "parse"
    /\ gen.i >= 2
    /\ Len(doc.body) = gen.i - 1
    /\ \E k \in DescendantLines : Appended(BlockOf(k))
    /\ \E k \in TaglessLines : ~IsMainLine(k)

(***************************************************************************)
(* C5: blank lines have no effect: generate ends as it ends on the         *)
(* template with every blank line removed and every other line trimmed,    *)
(* and builds the same tree.                                               *)
(***************************************************************************)

\* the trimmed lines of a sequence of lines, without those that are blank
RECURSIVE NonBlankTrimmed(_)
NonBlankTrimmed(ls) ==
    IF ls = <<>> THEN <<>>
    ELSE IF Trim(Head(ls)) = <<>> THEN NonBlankTrimmed(Tail(ls))
    ELSE <<Trim(Head(ls))>> \o NonBlankTrimmed(Tail(ls))

\* the template with every blank line removed and every other line trimmed
Clean(template) == Join(NonBlankTrimmed(Split(template, "\n")))

\* the tree under element n of a document, without the identifiers and the
\* line numbers
RECURSIVE Shape(_, _)
Shape(nodes, n) ==
    [tagName |-> nodes[n].tagName, classList |-> nodes[n].classList,
     attributes |-> nodes[n].attributes, id |-> nodes[n].id,
     text |-> nodes[n].text, listeners |-> nodes[n].listeners,
     children |-> [i \in 1..Len(nodes[n].children) |->
                      Shape(nodes, nodes[n].children[i])]]

\* the trees a document holds in its parent container
Forest(d) == [i \in 1..Len(d.body) |-> Shape(d.nodes, d.body[i])]

\* how generate ends on the template on a new document, and what it builds
Outcome(template) ==
    LET end == Generate(template, [nodes |-> <<>>, body |-> <<>>], EVENTS, xmlNames)
    IN  [pc |-> end.gen.pc, forest |-> Forest(end.doc)]

C5_BlankLinesIgnored ==
    Over => [pc |-> gen.pc, forest |-> Forest(doc)] = Outcome(Clean(gen.template))

(***************************************************************************)
(* Reading the registry and the line cases, for the properties             *)
(***************************************************************************)

\* the case the template of generate was written from
CaseOfTemplate == CHOOSE c \in LineCases : TemplateOf(c) = gen.template

\* a binding whose name, type or callback is missing
Incomplete(event) ==
    \/ "name" \notin DOMAIN event \/ event.name = <<>>
    \/ "type" \notin DOMAIN event \/ event.type = <<>>
    \/ "callback" \notin DOMAIN event

\* the name without its first two characters
WithoutOn(name) == Sub(name, 3, Len(name))

\* the name a binding registered under name is to be stored under
StoredName(name) ==
    IF Len(name) >= 2 /\ name[1] = "o" /\ name[2] = "n" THEN WithoutOn(name)
    ELSE name

\* the bindings registered under name, earliest first
Registered(name) == SelectSeq(EVENTS, LAMBDA b : b.name = name)

\* the listener of a binding
ListenerOf(b) == [type |-> b.type, callback |-> b.callback]

(***************************************************************************)
(* C4: when generate returns, the registry is empty.                       *)
(***************************************************************************)
C4_RegistryEmptyOnReturn == gen.pc = "returned" => EVENTS = <<>>

\* C4 as amended: no step of generate, its return included, changes the
\* registry: it holds on return what it held at the call
C4_GenerateKeepsRegistry ==
    [][gen'.pc \in {"main", "while", "returned", "thrown"} => EVENTS' = EVENTS]_vars

\* generate returned, elements are appended and the registry holds bindings
C4_Witness == gen.pc = "returned" /\ doc.body # <<>> /\ Len(EVENTS) = MaxEvents

(***************************************************************************)
(* C6: bindEvent with a binding whose name, type or callback is missing    *)
(* fails, and the registry is after the call what it was before.           *)
(***************************************************************************)
C6_IncompleteBindingRefused ==
    [][\A event \in Bindings :
          BindEvent(event) /\ Incomplete(event) => call'.error /\ EVENTS' = EVENTS]_vars

\* a binding without a callback was refused while the registry held a binding
C6_Witness ==
    /\ call.op = "bindEvent" /\ call.error
    /\ "callback" \notin DOMAIN call.event
    /\ EVENTS # <<>>

(***************************************************************************)
(* C7: a binding registered under "on" + X is stored under X, as a binding *)
(* registered under X is when X does not begin with "on"; a lookup by X    *)
(* finds it, and a line that names X receives its listener, unless an      *)
(* earlier binding is stored under X.                                      *)
(***************************************************************************)
C7_OnPrefixStripped ==
    call.op = "bindEvent" /\ ~call.error =>
        LET stored == [call.event EXCEPT !.name = StoredName(call.event.name)]
        IN  /\ EVENTS # <<>> /\ EVENTS[Len(EVENTS)] = stored
            /\ SearchForEvent(EVENTS, stored.name) # Null
            /\ SearchForEvent(EVENTS, stored.name).name = stored.name
            /\ Len(Registered(stored.name)) = 1 =>
                  /\ SearchForEvent(EVENTS, stored.name) = stored
                  /\ gen.pc = "returned"
                     /\ stored.name \in Range(CaseOfTemplate.events) =>
                        \A n \in Nodes :
                            ListenerOf(stored) \in Range(doc.nodes[n].listeners)

\* a binding registered under "onc" is the only one stored under "c", and
\* generate returned on a line that names "c": its elements have the listener
C7_Witness ==
    /\ call.op = "bindEvent" /\ ~call.error /\ call.event.name = NameOnC
    /\ Len(Registered(NameC)) = 1
    /\ gen.pc = "returned" /\ NameC \in Range(CaseOfTemplate.events)
    /\ \E n \in Nodes : doc.nodes[n].listeners # <<>>

(***************************************************************************)
(* C8: of several bindings stored under one name, a line that names it     *)
(* receives the listener of the earliest, never that of a later one.       *)
(***************************************************************************)
C8_FirstRegistrationWins ==
    gen.pc = "returned" =>
        \A n \in Nodes :
            \A name \in Range(CaseOfTemplate.events) :
                Registered(name) # <<>> /\ ~DigitFirst(name) =>
                    /\ ListenerOf(Registered(name)[1]) \in Range(doc.nodes[n].listeners)
                    /\ \A i \in 2..Len(Registered(name)) :
                          ListenerOf(Registered(name)[i]) \in Range(doc.nodes[n].listeners)
                              => \E other \in Range(CaseOfTemplate.events) :
                                    /\ Registered(other) # <<>>
                                    /\ ListenerOf(Registered(other)[1])
                                           = ListenerOf(Registered(name)[i])

\* generate returned on a line that names "c" while two bindings with
\* different callbacks were stored under "c"
C8_Witness ==
    /\ gen.pc = "returned" /\ NameC \in Range(CaseOfTemplate.events)
    /\ Len(Registered(NameC)) = 2
    /\ Registered(NameC)[1].callback # Registered(NameC)[2].callback
    /\ \A n \in Nodes : Len(doc.nodes[n].listeners) = 1

(***************************************************************************)
(* C10: a class, attribute or event token that begins with a digit never   *)
(* interrupts generate: it is skipped and the element is created with the  *)
(* other fields of its line.                                               *)
(***************************************************************************)

\* the element a case is to give: its tokens, without those that begin with
\* a digit
ExpectedElement(c) ==
    LET classes == SelectSeq(c.classes, LAMBDA t : ~DigitFirst(t))
        attrs   == SelectSeq(c.attrs, LAMBDA e : ~DigitFirst(e.name))
        names   == SelectSeq(c.events,
                             LAMBDA t : ~DigitFirst(t) /\ Registered(t) # <<>>)
    IN  [tagName |-> <<"a">>, classList |-> classes,
         attributes |-> [i \in 1..Len(attrs) |->
                            [name |-> attrs[i].name,
                             value |-> IF attrs[i].value = Undefined THEN <<>>
                                       ELSE attrs[i].value]],
         id |-> <<>>, text |-> <<>>,
         listeners |-> [i \in 1..Len(names) |-> ListenerOf(Registered(names[i])[1])],
         children |-> <<>>]

\* what the tree of a case is to be: the element, with the same as its child
ExpectedForest(c) ==
    <<[ExpectedElement(c) EXCEPT !.children = <<ExpectedElement(c)>>]>>

C10_DigitTokenSkipped ==
    Over /\ CaseOfTemplate \in DigitCases =>
        /\ gen.pc = "returned"
        /\ Forest(doc) = ExpectedForest(CaseOfTemplate)

(***************************************************************************)
(* The parsing specification: bindEvent, then generate on one line written *)
(* from its groups                                                         *)
(***************************************************************************)

\* the tokens of the lines
NameD == <<"d">>
ClassX == <<"x">>
ClassYZ == <<"y", "-", "z">>
AttrK == <<"k">>
AttrB == <<"b">>
ValueV == <<"v">>
ValueVW == <<"v", "=", "w">>

\* a line written from its groups: the tag "a", the classes, the id, the
\* content, the attribute entries and the groups of event names, each group
\* behind its own "@"
RECURSIVE GroupsText(_)
GroupsText(groups) ==
    IF groups = <<>> THEN <<>>
    ELSE <<"@">> \o JoinBy(Head(groups), ";") \o GroupsText(Tail(groups))

ParseLineOf(c) ==
    <<"a">> \o ClassesText(c.classes)
        \o (IF c.id = Undefined THEN <<>> ELSE <<"#">> \o c.id)
        \o (IF c.content = Undefined THEN <<>> ELSE <<"(">> \o c.content \o <<")">>)
        \o (IF c.attrs = <<>> THEN <<>>
            ELSE <<"[">>
                 \o JoinBy([i \in 1..Len(c.attrs) |-> EntryText(c.attrs[i])],
                           SYMBOL_BETWEEN_ATTRIBUTES)
                 \o <<"]">>)
        \o GroupsText(c.groups)

\* lines of valid tokens, every combination of the groups: no, one or two
\* classes, an id or none, a content or none, no, one or two attribute
\* entries, and no event name, one, two in one group or two in two groups
ParseCases ==
    [classes : {<<>>, <<ClassX>>, <<ClassX, ClassYZ>>},
     id      : {Undefined, <<"i">>},
     content : {Undefined, <<"t">>},
     attrs   : {<<>>, <<Pair(<<>>, AttrK, ValueV)>>,
                <<Pair(<<>>, AttrK, ValueV), Bare(<<" ">>, AttrB)>>},
     groups  : {<<>>, <<<<NameC>>>>, <<<<NameC, NameD>>>>, <<<<NameC>>, <<NameD>>>>}]

\* attribute entries: a name alone, a name and a value, a name and an empty
\* value, a name and a value that holds "="
AttrEntries ==
    {Bare(<<>>, AttrK), Pair(<<>>, AttrK, ValueV), Pair(<<>>, AttrK, <<>>),
     Pair(<<>>, AttrK, ValueVW)}

\* lines with one of these entries, alone or after another entry
AttrCases ==
    [classes : {<<>>}, id : {Undefined}, content : {Undefined}, groups : {<<>>},
     attrs   : {<<e>> : e \in AttrEntries}
                  \cup {<<Pair(<<>>, AttrB, ValueV), e>> : e \in AttrEntries}]

ParseTemplates == {ParseLineOf(c) : c \in ParseCases \cup AttrCases}

\* the arguments of bindEvent: bindings under the names "c" and "d"
ParseBindings == [name : {NameC, NameD}, type : {Click}, callback : {"f", "g"}]

NextParse ==
    \/ \E event \in ParseBindings : BindEvent(event)
    \/ \E template \in ParseTemplates : GenerateCall(template)
    \/ GenerateNext

SpecParse == Init /\ [][NextParse]_vars

\* the case the line of generate was written from
CaseOfLine == CHOOSE c \in ParseCases \cup AttrCases : ParseLineOf(c) = gen.template

\* the names of the groups of a line, in the order of the line
RECURSIVE Flatten(_)
Flatten(groups) ==
    IF groups = <<>> THEN <<>> ELSE Head(groups) \o Flatten(Tail(groups))

\* the listeners of the names that are bound, in the order of the names
RECURSIVE ListenersOf(_)
ListenersOf(names) ==
    IF names = <<>> THEN <<>>
    ELSE LET rest == ListenersOf(Sub(names, 1, Len(names) - 1))
             name == names[Len(names)]
         IN  IF Registered(name) = <<>> THEN rest
             ELSE AddEventListener(rest, Registered(name)[1].type,
                                   Registered(name)[1].callback)

\* the element that carries what the line of a case says, nothing else
WrittenElement(c) ==
    [tagName |-> <<"a">>, classList |-> c.classes,
     attributes |-> [i \in 1..Len(c.attrs) |->
                        [name |-> c.attrs[i].name,
                         value |-> IF c.attrs[i].value = Undefined THEN <<>>
                                   ELSE c.attrs[i].value]],
     id |-> IF c.id = Undefined THEN <<>> ELSE c.id,
     text |-> IF c.content = Undefined THEN <<>> ELSE c.content,
     listeners |-> ListenersOf(Flatten(c.groups)),
     children |-> <<>>]

(***************************************************************************)
(* C11: the element built from a line of valid tokens carries what the     *)
(* line says: the tag, the classes in order, the id, the content, the      *)
(* attribute pairs and a listener for every event name of the line that is *)
(* bound; generate returns with that element alone.                        *)
(***************************************************************************)
C11_LineRoundTrip ==
    Over /\ CaseOfLine \in ParseCases =>
        /\ gen.pc = "returned"
        /\ Forest(doc) = <<WrittenElement(CaseOfLine)>>

(***************************************************************************)
(* C12: an attribute entry with "=" gives the attribute named by the text  *)
(* before the first "=", valued by all the text after it; an entry without *)
(* "=" gives an attribute with the empty value.                            *)
(***************************************************************************)

\* the attribute an entry says: split at the first "="
AttributeOfEntry(entry) ==
    LET eq == IndexOf(entry, "=")
    IN  IF eq = 0 THEN [name |-> entry, value |-> <<>>]
        ELSE [name |-> Sub(entry, 1, eq - 1),
              value |-> Sub(entry, eq + 1, Len(entry))]

C12_SplitAtFirstEquals ==
    Over /\ CaseOfLine \in AttrCases =>
        /\ gen.pc = "returned"
        /\ Len(doc.body) = 1
        /\ doc.nodes[doc.body[1]].attributes
               = [i \in 1..Len(CaseOfLine.attrs) |->
                     AttributeOfEntry(EntryText(CaseOfLine.attrs[i]))]

(***************************************************************************)
(* The indentation specification: calls of indentTemplate, on a template   *)
(* or on what the call before returned                                     *)
(***************************************************************************)

\* the deepest indentation asked for
MaxIndentation == 2

\* the lines of the templates: a tag, a tag one level down, a tag behind
\* white space, an empty line and a line of white space
IndentLines == {<<"a">>, <<">", "b">>, <<" ", "c">>, <<>>, <<" ">>}

IndentTemplates == Templates(IndentLines, MaxLines)

\* the call and what it returned become the state; of is the call whose
\* result was the template, Null for a template of the caller
Indented(template, indentation, result, of) ==
    call' = [op |-> "indentTemplate", event |-> Null, error |-> FALSE,
             template |-> template, indentation |-> indentation,
             result |-> result, of |-> of]

\* builder.indentTemplate(template, indentation), the first call made: the
\* method reads and writes no field, so a call owes nothing to those before
IndentTemplateCall(template, indentation) ==
    /\ gen.pc = "idle" /\ call.op = "new"
    /\ Indented(template, indentation, IndentTemplate(template, indentation), Null)
    /\ UNCHANGED <<EVENTS, xmlNames, doc, gen, menus, onclick>>

\* builder.indentTemplate(result, indentation) on the result of the call
\* before, as _build does with the result of _buildItem
IndentTemplateAgain(indentation) ==
    /\ gen.pc = "idle"
    /\ call.op = "indentTemplate" /\ call.of = Null
    /\ Indented(call.result, indentation, IndentTemplate(call.result, indentation),
                [template |-> call.template, indentation |-> call.indentation])
    /\ UNCHANGED <<EVENTS, xmlNames, doc, gen, menus, onclick>>

NextIndent ==
    \/ \E template \in IndentTemplates, indentation \in 0..MaxIndentation :
          IndentTemplateCall(template, indentation)
    \/ \E indentation \in 0..MaxIndentation : IndentTemplateAgain(indentation)

SpecIndent == Init /\ [][NextIndent]_vars

\* the levels of the lines of a template
LevelsOf(template) ==
    [i \in 1..Len(Split(template, "\n")) |-> Level(Split(template, "\n")[i])]

(***************************************************************************)
(* C13: indentTemplate by 1 of the result of indentTemplate by 1 has the   *)
(* lines of indentTemplate by 2 of the same template, with the same number *)
(* of leading markers on each.                                             *)
(***************************************************************************)
C13_IndentationComposes ==
    /\ call.op = "indentTemplate" /\ call.of # Null
    /\ call.indentation = 1 /\ call.of.indentation = 1
    => LevelsOf(call.result) = LevelsOf(IndentTemplate(call.of.template, 2))

\* indentTemplate by 1 was called twice in a row on a template of several
\* lines, one of them already one level down, with blank lines between them
C13_Witness ==
    /\ call.op = "indentTemplate" /\ call.of # Null
    /\ call.indentation = 1 /\ call.of.indentation = 1
    /\ Len(LevelsOf(call.result)) >= 2
    /\ \E i \in 1..Len(LevelsOf(call.result)) : LevelsOf(call.result)[i] = 3
    /\ \E i \in 1..Len(LevelsOf(call.result)) : LevelsOf(call.result)[i] = 2
    /\ Len(Split(call.of.template, "\n")) > Len(LevelsOf(call.result))

(***************************************************************************)
(* C14: indentTemplate returns one line for every line of the template     *)
(* that is not blank, in order: the markers, then the line trimmed; a      *)
(* blank line gives no line.                                               *)
(***************************************************************************)
C14_OneLinePerNonBlankLine ==
    call.op = "indentTemplate" /\ call.of = Null =>
        LET kept == NonBlankTrimmed(Split(call.template, "\n"))
        IN  call.result
                = Join([i \in 1..Len(kept) |->
                           Repeat(">", call.indentation) \o kept[i]])

(***************************************************************************)
(* C15: the registry is the sequence of the bindings of the calls of       *)
(* bindEvent that succeeded since the last clearEvents, in the order of    *)
(* the calls: a call that succeeds appends its binding (under its stored   *)
(* name), a call that fails changes nothing, and clearEvents leaves the    *)
(* registry empty, also when it was empty before.                          *)
(***************************************************************************)
C15_RegistryIsCallSequence ==
    [][/\ \A event \in Bindings :
             BindEvent(event) =>
                 /\ call'.error = Incomplete(event)
                 /\ EVENTS' = IF call'.error THEN EVENTS
                              ELSE Append(EVENTS,
                                          [event EXCEPT !.name = StoredName(event.name)])
       /\ ClearEvents => EVENTS' = <<>> /\ ClearEventsResult(EVENTS') = EVENTS'
      ]_vars

\* two bindings with different callbacks were registered one after the
\* other, the second under a name with "on", and both are in the registry
C15_Witness ==
    /\ call.op = "bindEvent" /\ ~call.error /\ call.event.name = NameOnC
    /\ Len(EVENTS) = 2
    /\ EVENTS[1].callback # EVENTS[2].callback
    /\ EVENTS[2].name = NameC

(***************************************************************************)
(* The specification of two renderings: bindEvent, generate on a           *)
(* template, then setParent on another empty parent and generate on the    *)
(* same template                                                           *)
(***************************************************************************)

\* the longest tree template rendered twice, in lines
MaxLinesTwice == 2

\* the templates rendered twice: lines with classes, attributes and event
\* names, and trees
TwiceTemplates == LineTemplates \cup Templates(TreeLines, MaxLinesTwice)

\* builder.setParent(parent) on a parent with no child, after generate
\* returned, then builder.generate(template) on the template of the first
\* call: what the first parent holds is kept in call
GenerateAgain ==
    /\ gen.pc = "returned" /\ call.op # "setParent"
    /\ call' = [op |-> "setParent", event |-> Null, error |-> FALSE,
                forest |-> Forest(doc)]
    /\ doc' = [doc EXCEPT !.body = <<>>]
    /\ gen' = GenerateEnter(gen.template)
    /\ UNCHANGED <<EVENTS, xmlNames, menus, onclick>>

NextTwice ==
    \/ \E event \in ParseBindings : BindEvent(event)
    \/ \E template \in TwiceTemplates : GenerateCall(template)
    \/ GenerateNext
    \/ GenerateAgain

SpecTwice == Init /\ [][NextTwice]_vars

C17_PlacingLoopEnds ==
    /\ [][gen.pc = "while" /\ gen.childrenElements # <<>> =>
             /\ GetIndexOfDeepestElement(gen.childrenElements)
                    \in 1..Len(gen.childrenElements)
             /\ gen'.pc = "while"
             /\ Len(gen'.childrenElements) = Len(gen.childrenElements) - 1
             /\ \A n \in 1..Len(gen'.childrenElements) :
                   gen'.childrenElements[n]
                       = gen.childrenElements[
                             IF n < GetIndexOfDeepestElement(gen.childrenElements)
                             THEN n ELSE n + 1]]_vars
    /\ [][gen.pc = "while" /\ gen.childrenElements = <<>> =>
             gen'.pc = "main" /\ gen'.i = gen.i + 1]_vars

\* the loop placed the three descendant lines of a block and its list is
\* empty
C17_Witness ==
    /\ gen.pc = "while" /\ gen.childrenElements = <<>>
    /\ Len(gen.mainLines) = 1
    /\ Cardinality(DescendantLines) >= 3
    /\ \A k \in DescendantLines : \E p \in Nodes : IsChildOf(NodeOf(k), p)

(***************************************************************************)
(* ContextMenu: the document                                               *)
(***************************************************************************)

\* the elements under element n, n first, in document order
RECURSIVE InOrder(_, _)
RECURSIVE InOrderAll(_, _)
InOrder(nodes, n) == <<n>> \o InOrderAll(nodes, nodes[n].children)

InOrderAll(nodes, list) ==
    IF list = <<>> THEN <<>>
    ELSE InOrder(nodes, Head(list)) \o InOrderAll(nodes, Tail(list))

\* the elements of the document, in document order
InDocument(d) == InOrderAll(d.nodes, d.body)

\* the first element of a list that has the class, 0 when none has
FirstOfClass(nodes, list, class) ==
    IF \E i \in 1..Len(list) : \E c \in 1..Len(nodes[list[i]].classList) :
           nodes[list[i]].classList[c] = class
    THEN list[CHOOSE i \in 1..Len(list) :
                  /\ \E c \in 1..Len(nodes[list[i]].classList) :
                        nodes[list[i]].classList[c] = class
                  /\ \A j \in 1..(i - 1) :
                        \A c \in 1..Len(nodes[list[j]].classList) :
                            nodes[list[j]].classList[c] # class]
    ELSE 0

\* document.querySelector("#" + id): the first element of the document with
\* that id, 0 for null
QuerySelectorId(d, id) ==
    LET list == InDocument(d)
    IN  IF \E i \in 1..Len(list) : d.nodes[list[i]].id = id
        THEN list[CHOOSE i \in 1..Len(list) :
                      /\ d.nodes[list[i]].id = id
                      /\ \A j \in 1..(i - 1) : d.nodes[list[j]].id # id]
        ELSE 0

\* document.querySelectorAll("." + class): the elements of the document with
\* that class, in document order
QuerySelectorAll(d, class) ==
    SelectSeq(InDocument(d),
              LAMBDA n : \E c \in 1..Len(d.nodes[n].classList) :
                             d.nodes[n].classList[c] = class)

\* element.querySelector("." + class): the first element under the element
\* with that class, 0 for null; the element 0 stands for document.body
QuerySelectorIn(d, element, class) ==
    IF element = 0 THEN FirstOfClass(d.nodes, InDocument(d), class)
    ELSE FirstOfClass(d.nodes, Tail(InOrder(d.nodes, element)), class)

\* target.parentElement: 0 stands for document.body
ParentElement(d, target) ==
    IF \E p \in 1..Len(d.nodes) : \E i \in 1..Len(d.nodes[p].children) :
           d.nodes[p].children[i] = target
    THEN CHOOSE p \in 1..Len(d.nodes) : \E i \in 1..Len(d.nodes[p].children) :
             d.nodes[p].children[i] = target
    ELSE 0

\* menu.contains(target)
Contains(d, menu, target) ==
    \E i \in 1..Len(InOrder(d.nodes, menu)) : InOrder(d.nodes, menu)[i] = target

\* document.body.removeChild(child), child being a child of document.body
RemoveChild(d, child) ==
    [d EXCEPT !.body = SelectSeq(@, LAMBDA n : n # child)]

\* element.classList.toggle(class)
ClassListToggle(classList, class) ==
    IF \E c \in 1..Len(classList) : classList[c] = class
    THEN SelectSeq(classList, LAMBDA c : c # class)
    ELSE Append(classList, class)

(***************************************************************************)
(* ContextMenu: the templates of _build and _buildItem.  An item is a      *)
(* record of the properties it has; its onclick is the name of a function  *)
(***************************************************************************)

arrow_down == <<"▼">>
arrow_up == <<"▲">>

\* the decimal digits of a number, as "" + n gives them
RECURSIVE NumberToString(_)
NumberToString(n) ==
    IF n < 10 THEN <<(<<"0", "1", "2", "3", "4", "5", "6", "7", "8", "9">>)[n + 1]>>
    ELSE NumberToString(n \div 10) \o NumberToString(n % 10)

\* "contextmenu-" + this._rand(0, 1000000), for the number drawn
MenuId(drawn) == <<"c", "o", "n", "t", "e", "x", "t", "m", "e", "n", "u", "-">> \o NumberToString(drawn)

\* "eventitem-" + this._rand(0, 1000000) and "openchildren-" + ...
EventItemName(drawn) == <<"e", "v", "e", "n", "t", "i", "t", "e", "m", "-">> \o NumberToString(drawn)
OpenChildrenName(drawn) == <<"o", "p", "e", "n", "c", "h", "i", "l", "d", "r", "e", "n", "-">> \o NumberToString(drawn)

\* the template _build starts from
MenuTemplate(id) ==
    <<"\n", " ", " ", " ", " ", " ", " ", " ", " ", " ", " ", " ", " ",
      "d", "i", "v", ".", "c", "o", "n", "t", "e", "x", "t", "m", "e",
      "n", "u", "#">> \o id \o
    <<"\n", " ", " ", " ", " ", " ", " ", " ", " ", " ", " ", " ", " ",
      " ", " ", " ", " ", ">", "u", "l", "\n", " ", " ", " ", " ", " ",
      " ", " ", " ">>

\* "div.contextmenu-separator"
SeparatorTemplate ==
    <<"d", "i", "v", ".", "c", "o", "n", "t", "e", "x", "t", "m", "e",
      "n", "u", "-", "s", "e", "p", "a", "r", "a", "t", "o", "r">>

\* the lines _buildItem writes for every item, up to the title
ItemTemplate(item, event_name) ==
    <<"\n", " ", " ", " ", " ", " ", " ", " ", " ", " ", " ", " ", " ",
      " ", " ", " ", " ", "l", "i", "@">> \o event_name
        \o
    <<"\n", " ", " ", " ", " ", " ", " ", " ", " ", " ", " ", " ", " ",
      " ", " ", " ", " ", " ", " ", " ", " ", ">", "d", "i", "v", ".",
      "c", "o", "n", "t", "e", "x", "t", "m", "e", "n", "u", "-", "i",
      "t", "e", "m", "\n", "\t", "\t", "\t", "\t", "\t", "\t", ">", ">",
      "d", "i", "v", ".", "c", "o", "n", "t", "e", "x", "t", "m", "e",
      "n", "u", "-", "c", "o", "n", "t", "a", "i", "n", "e", "r", "-",
      "t", "i", "t", "l", "e", "\n", "\t", "\t", "\t", "\t", "\t", "\t",
      "\t">>
        \o (IF Has(item, "icon") THEN <<">", ">", ">", "i", "m", "g", "[", "s", "r", "c", "=">> \o item.icon \o <<"]">> ELSE <<>>)
        \o
    <<"\n", "\t", "\t", "\t", "\t", "\t", "\t", "\t", ">", ">", ">", "s",
      "p", "a", "n", ".", "c", "o", "n", "t", "e", "x", "t", "m", "e",
      "n", "u", "-", "t", "i", "t", "l", "e", "(">>
        \o (IF Has(item, "title") THEN item.title ELSE <<>>)
        \o <<")", "\n">>

\* the template of an item without children
SingleTemplate(item, event_name) ==
    ItemTemplate(item, event_name)
        \o <<"\t", "\t", "\t", "\t", "\t", "\t">>
        \o (IF Has(item, "shortcut")
            THEN
    <<">", ">", "s", "p", "a", "n", ".", "c", "o", "n", "t", "e", "x",
      "t", "m", "e", "n", "u", "-", "s", "h", "o", "r", "t", "c", "u",
      "t", "(">> \o item.shortcut \o <<")">>
            ELSE <<>>)
        \o
    <<"\n", "\n", " ", " ", " ", " ", " ", " ", " ", " ", " ", " ", " ",
      " ">>

\* the template of an item with children, before the loop over them
ComplexTemplate(item, event_name) ==
    ItemTemplate(item, event_name)
        \o
    <<"\t", "\t", "\t", "\t", "\t", "\t", ">", ">", "s", "p", "a", "n",
      ".", "c", "o", "n", "t", "e", "x", "t", "m", "e", "n", "u", "-",
      "a", "r", "r", "o", "w", "(">> \o arrow_down
        \o
    <<")", "\n", "\t", "\t", "\t", "\t", "\t", ">", "d", "i", "v", ".",
      "c", "o", "n", "t", "e", "x", "t", "m", "e", "n", "u", "-", "c",
      "o", "n", "t", "a", "i", "n", "e", "r", "-", "c", "h", "i", "l",
      "d", "r", "e", "n", ".", "c", "o", "n", "t", "e", "x", "t", "m",
      "e", "n", "u", "-", "h", "i", "d", "d", "e", "n", "\n", "\t", "\t",
      "\t", "\t", "\t", "\t", ">", ">", "u", "l", "\n", " ", " ", " ",
      " ", " ", " ", " ", " ", " ", " ", " ", " ">>

(***************************************************************************)
(* ContextMenu: _buildItem and _build.  b is what the building has made so *)
(* far: the template, the registry of this.builder and the numbers _rand   *)
(* is still to return, in the order of its calls                           *)
(***************************************************************************)

\* item.separator
IsSeparator(item) == "separator" \in DOMAIN item /\ item.separator

\* the child keeps its children
WithoutNothing(item, property) == item

\* child.children = undefined: the property reads as when it is missing
Without(item, property) == [p \in DOMAIN item \ {property} |-> item[p]]

\* () => { onclick(); this.closeCurrentMenu(); }
ItemCallback(item, this) ==
    [callback |-> "item", onclick |-> item.onclick, this |-> this]

\* (e) => { this._openChildren(e); }
OpenChildrenCallback(this) == [callback |-> "openChildren", this |-> this]

\* this.builder.bindEvent({name, type: "click", callback}) after the name
\* was drawn
Bind(b, name, callback) ==
    [b EXCEPT !.EVENTS = BindEventResult(
                             @, [name |-> name, type |-> Click,
                                 callback |-> callback]).EVENTS,
              !.rands = Tail(@)]

\* template += this.builder.indentTemplate(built.template, indentation) + "\n"
Added(b, built, indentation) ==
    [template |-> b.template \o IndentTemplate(built.template, indentation)
                      \o <<"\n">>,
     EVENTS |-> built.EVENTS, rands |-> built.rands]

\* _buildItem(item): the template of the item, in b with the registry and
\* the numbers left
RECURSIVE BuildItem(_, _, _)
RECURSIVE BuildChildren(_, _, _, _)

\* the loop over the children of an item, from child k on
BuildChildren(children, k, b, this) ==
    IF k > Len(children) THEN b
    ELSE IF IsSeparator(children[k])
    THEN BuildChildren(children, k + 1,
                       Added(b, [b EXCEPT !.template = SeparatorTemplate], 3),
                       this)
    ELSE BuildChildren(children, k + 1,
                       Added(b, BuildItem(Without(children[k], "children"), b, this), 3),
                       this)

BuildItem(item, b, this) ==
    IF "children" \notin DOMAIN item /\ "onclick" \in DOMAIN item
    THEN [Bind(b, EventItemName(Head(b.rands)), ItemCallback(item, this))
             EXCEPT !.template = SingleTemplate(item, EventItemName(Head(b.rands)))]
    ELSE IF "children" \in DOMAIN item
    THEN BuildChildren(
             item.children, 1,
             [Bind(b, OpenChildrenName(Head(b.rands)), OpenChildrenCallback(this))
                 EXCEPT !.template =
                     ComplexTemplate(item, OpenChildrenName(Head(b.rands)))],
             this)
    ELSE [b EXCEPT !.template = SingleTemplate(item, <<>>)]

\* the loop of _build over the items, from item k on
RECURSIVE BuildItems(_, _, _, _)
BuildItems(items, k, b, this) ==
    IF k > Len(items) THEN b
    ELSE IF IsSeparator(items[k])
    THEN BuildItems(items, k + 1,
                    Added(b, [b EXCEPT !.template = SeparatorTemplate], 2), this)
    ELSE BuildItems(items, k + 1, Added(b, BuildItem(items[k], b, this), 2), this)

\* _build(event, items) up to this.builder.generate(template): the template
\* and the registry of a new HTMLBuilder
Build(items, rands, this) ==
    BuildItems(items, 1,
               [template |-> MenuTemplate(MenuId(Head(rands))),
                EVENTS |-> <<>>, rands |-> Tail(rands)],
               this)

\* this.builder.generate(template) on the document
BuildGenerate(b, d, xml) == Generate(b.template, d, b.EVENTS, xml)

\* the class of a menu
contextmenu == <<"c", "o", "n", "t", "e", "x", "t", "m", "e", "n", "u">>

\* _closeAllMenus(): every element of class contextmenu leaves document.body
RECURSIVE RemoveAll(_, _)
RemoveAll(d, list) ==
    IF list = <<>> THEN d ELSE RemoveAll(RemoveChild(d, Head(list)), Tail(list))

\* the selector matches no element: no menu is removed
CloseAllMenusFindsNone(d) == RemoveAll(d, <<>>)

CloseAllMenus(d) == RemoveAll(d, QuerySelectorAll(d, contextmenu))

\* _getMenu() of a ContextMenu: 0 for null
GetMenu(d, menu) ==
    IF Truthy(menu.menuid) THEN QuerySelectorId(d, menu.menuid) ELSE 0

\* the removal of closeCurrentMenu, menu being what _getMenu returned
RemoveMenu(d, menu) == IF menu # 0 THEN RemoveChild(d, menu) ELSE d

\* closeCurrentMenu() of a ContextMenu
CloseCurrentMenuOf(d, menu) == RemoveMenu(d, GetMenu(d, menu))

\* the toggle of _openChildren, once the container and the arrow are found
Toggled(d, children_container, arrow) ==
    IF children_container # 0 /\ arrow # 0
    THEN [d EXCEPT
             !.nodes[children_container].classList =
                 ClassListToggle(@,
    <<"c", "o", "n", "t", "e", "x", "t", "m", "e", "n", "u", "-", "h",
      "i", "d", "d", "e", "n">>),
             !.nodes[arrow].text =
                 IF @ = arrow_up THEN arrow_down ELSE arrow_up]
    ELSE d

\* _openChildren(e) with li = e.target.parentElement
OpenChildrenIn(d, li) ==
    Toggled(d,
            QuerySelectorIn(d, li,
    <<"c", "o", "n", "t", "e", "x", "t", "m", "e", "n", "u", "-", "c",
      "o", "n", "t", "a", "i", "n", "e", "r", "-", "c", "h", "i", "l",
      "d", "r", "e", "n">>),
            QuerySelectorIn(d, li,
    <<"c", "o", "n", "t", "e", "x", "t", "m", "e", "n", "u", "-", "a",
      "r", "r", "o", "w">>))

OpenChildren(d, target) == OpenChildrenIn(d, ParentElement(d, target))

(***************************************************************************)
(* ContextMenu: the constructor, a click, closeCurrentMenu.  menus are the *)
(* ContextMenu objects made so far, onclick is the one whose handler is    *)
(* document.onclick (0: none)                                              *)
(***************************************************************************)

MaxMenus == 2
MaxRand == 1

\* the numbers _rand(0, 1000000) returns, cut to the first ones: two calls
\* may return the same number
RandValues == 0..MaxRand

ItemA == [title |-> <<"A">>, onclick |-> "fA"]
ItemB == [title |-> <<"B">>, onclick |-> "fB", icon |-> <<"i">>, shortcut |-> <<"S">>]
ItemC == [title |-> <<"C">>]
ItemE == [title |-> <<"E">>, onclick |-> "fE", children |-> <<ItemA>>]
Separator == [separator |-> TRUE]
ItemD == [title |-> <<"D">>, children |-> <<ItemE, Separator>>]

\* the items given to the constructor
ItemLists == {<<ItemA, ItemB>>, <<ItemD>>, <<Separator, ItemC>>}

\* the calls of _rand one construction makes at most: one for the id of the
\* menu, one for each item that has an onclick or children
RECURSIVE NumberOfDraws(_)
NumberOfDraws(items) ==
    IF items = <<>> THEN 0
    ELSE NumberOfDraws(Tail(items))
         + (IF IsSeparator(Head(items)) THEN 0
            ELSE IF "children" \in DOMAIN Head(items)
            THEN 1 + NumberOfDraws(Head(items).children)
            ELSE IF "onclick" \in DOMAIN Head(items) THEN 1 ELSE 0)

Draws(items) == [1..(1 + NumberOfDraws(items)) -> RandValues]

\* the constructor after _closeAllMenus (allmenus is what it found in the
\* document) and _build ran generate (run) and clearEvents: this.menuid = id,
\* then document.onclick is set; an exception of generate leaves the
\* constructor before both
Constructed(items, id, allmenus, run) ==
    /\ doc' = run.doc
    /\ IF run.gen.pc = "thrown"
       THEN /\ call' = [op |-> "ContextMenu", event |-> Null, error |-> TRUE,
                        items |-> items, allmenus |-> allmenus]
            /\ UNCHANGED <<menus, onclick>>
       ELSE /\ call' = [op |-> "ContextMenu", event |-> Null, error |-> FALSE,
                        items |-> items, allmenus |-> allmenus]
            /\ menus' = Append(menus, [menuid |-> id])
            /\ onclick' = Len(menus) + 1
    /\ UNCHANGED <<EVENTS, xmlNames, gen>>

\* new ContextMenu(event, items), rands being what _rand returns
Construct(items, rands) ==
    /\ gen.pc = "idle"
    /\ Len(menus) < MaxMenus
    /\ Constructed(items, MenuId(Head(rands)),
                   QuerySelectorAll(doc, contextmenu),
                   BuildGenerate(Build(items, rands, Len(menus) + 1),
                                 CloseAllMenus(doc), xmlNames))

\* the elements from the target up to the root, the target first
RECURSIVE Path(_, _)
Path(d, target) ==
    IF target = 0 THEN <<>> ELSE <<target>> \o Path(d, ParentElement(d, target))

\* the click listeners a click on the target reaches, in the order they run
RECURSIVE ListenersOn(_, _)
ListenersOn(d, path) ==
    IF path = <<>> THEN <<>>
    ELSE SelectSeq(d.nodes[Head(path)].listeners, LAMBDA l : l.type = Click)
         \o ListenersOn(d, Tail(path))

\* one listener runs: st is the document and the onclick functions called
\* so far
RunListener(st, callback, target) ==
    IF callback.callback = "item"
    THEN [doc |-> CloseCurrentMenuOf(st.doc, menus[callback.this]),
          called |-> Append(st.called, callback.onclick)]
    ELSE [st EXCEPT !.doc = OpenChildren(@, target)]

RECURSIVE RunListeners(_, _, _)
RunListeners(st, listeners, target) ==
    IF listeners = <<>> THEN st
    ELSE RunListeners(RunListener(st, Head(listeners).callback, target),
                      Tail(listeners), target)

\* the handler the constructor puts in document.onclick, menu being what
\* _getMenu returned
DocumentOnclick(d, menu, target) ==
    IF menu # 0 /\ ~Contains(d, menu, target) THEN RemoveChild(d, menu) ELSE d

\* the end of a click: document.onclick after the listeners (st)
Clicked(target, st) ==
    /\ doc' = IF onclick = 0 THEN st.doc
              ELSE DocumentOnclick(st.doc, GetMenu(st.doc, menus[onclick]), target)
    /\ call' = [op |-> "click", event |-> Null, error |-> FALSE,
                target |-> target, called |-> st.called]
    /\ UNCHANGED <<EVENTS, xmlNames, gen, menus, onclick>>

\* a click on an element of the document, or outside every element (0)
ClickOn(target) ==
    /\ menus # <<>>
    /\ \/ target = 0
       \/ \E i \in 1..Len(InDocument(doc)) : InDocument(doc)[i] = target
    /\ Clicked(target,
               RunListeners([doc |-> doc, called |-> <<>>],
                            ListenersOn(doc, Path(doc, target)), target))

\* menu.closeCurrentMenu() by the page
CloseCurrentMenu(this) ==
    /\ this \in 1..Len(menus)
    /\ doc' = CloseCurrentMenuOf(doc, menus[this])
    /\ call' = [op |-> "closeCurrentMenu", event |-> Null, error |-> FALSE,
                this |-> this]
    /\ UNCHANGED <<EVENTS, xmlNames, gen, menus, onclick>>

NextMenu ==
    \/ \E items \in ItemLists : \E rands \in Draws(items) : Construct(items, rands)
    \/ \E target \in 0..Len(doc.nodes) : ClickOn(target)
    \/ \E this \in 1..MaxMenus : CloseCurrentMenu(this)

SpecMenu == Init /\ [][NextMenu]_vars

(***************************************************************************)
(* ContextMenu: what a click on an item does                               *)
(***************************************************************************)

\* the li an element is in: the nearest one from the element up, 0 when
\* there is none
FirstItemOf(d, path) ==
    IF \E i \in 1..Len(path) : d.nodes[path[i]].tagName = <<"l", "i">>
    THEN path[CHOOSE i \in 1..Len(path) :
                  /\ d.nodes[path[i]].tagName = <<"l", "i">>
                  /\ \A j \in 1..(i - 1) : d.nodes[path[j]].tagName # <<"l", "i">>]
    ELSE 0

ItemElementOf(d, target) == FirstItemOf(d, Path(d, target))

\* the classes the templates give the title and the arrow of an item
contextmenu_title ==
    <<"c", "o", "n", "t", "e", "x", "t", "m", "e", "n", "u", "-", "t",
      "i", "t", "l", "e">>
contextmenu_arrow ==
    <<"c", "o", "n", "t", "e", "x", "t", "m", "e", "n", "u", "-", "a",
      "r", "r", "o", "w">>

\* the title the template of an item puts in span.contextmenu-title
TitleOf(d, li) == d.nodes[QuerySelectorIn(d, li, contextmenu_title)].text

\* the items of ItemLists that have an onclick, by their titles
OnclickItems == {ItemA, ItemB, ItemE}

\* an li made from the template of a single item that has an onclick
IsSingleItem(d, li) ==
    /\ li # 0
    /\ QuerySelectorIn(d, li, contextmenu_arrow) = 0
    /\ \E item \in OnclickItems : item.title = TitleOf(d, li)

\* the onclick of the item an li was made from
OnclickOf(d, li) ==
    (CHOOSE item \in OnclickItems : item.title = TitleOf(d, li)).onclick

\* C18: a click on a single item of an open menu calls the onclick of that
\* item, once, calls no onclick of another item, and the menu is removed
\* from document.body
C18_ClickCallsOwnOnclick ==
    (/\ call.op = "click"
     /\ IsSingleItem(doc, ItemElementOf(doc, call.target)))
    => /\ call.called = <<OnclickOf(doc, ItemElementOf(doc, call.target))>>
       /\ QuerySelectorAll(doc, contextmenu) = <<>>

(***************************************************************************)
(* ContextMenu: the levels of a built menu                                 *)
(***************************************************************************)

contextmenu_container_children ==
    <<"c", "o", "n", "t", "e", "x", "t", "m", "e", "n", "u", "-", "c",
      "o", "n", "t", "a", "i", "n", "e", "r", "-", "c", "h", "i", "l",
      "d", "r", "e", "n">>

\* the li an li is under, 0 when it is under none: the li of the complex
\* item a subitem belongs to
ParentItemOf(d, li) == ItemElementOf(d, ParentElement(d, li))

\* an li under another li
IsSubitem(d, n) == d.nodes[n].tagName = <<"l", "i">> /\ ParentItemOf(d, n) # 0

\* nothing under the element is a list or an item
HasNoList(d, under) ==
    \A i \in 1..Len(under) : d.nodes[under[i]].tagName \notin {<<"u", "l">>, <<"l", "i">>}

\* C19: every child of a complex item is rendered as a single item: its li
\* holds no arrow, no children container and no nested list, and the li it
\* is under is an item of the first level
C19_SubitemsAreSingle ==
    \A n \in 1..Len(doc.nodes) :
        IsSubitem(doc, n)
        => /\ ParentItemOf(doc, ParentItemOf(doc, n)) = 0
           /\ QuerySelectorIn(doc, n, contextmenu_arrow) = 0
           /\ QuerySelectorIn(doc, n, contextmenu_container_children) = 0
           /\ HasNoList(doc, Tail(InOrder(doc.nodes, n)))

\* a menu is built from a complex item whose child E carries children
C19_Witness ==
    /\ call.op = "ContextMenu"
    /\ call.items = <<ItemD>>
    /\ \E n \in 1..Len(doc.nodes) :
          /\ IsSubitem(doc, n)
          /\ TitleOf(doc, n) = ItemE.title
          /\ \E i \in 1..Len(doc.nodes[n].listeners) :
                doc.nodes[n].listeners[i].callback.callback = "item"

(***************************************************************************)
(* ContextMenu: the menus in document.body                                 *)
(***************************************************************************)

\* the children of document.body of class contextmenu
OpenMenus(d) ==
    SelectSeq(d.body, LAMBDA n : \E c \in 1..Len(d.nodes[n].classList) :
                                    d.nodes[n].classList[c] = contextmenu)

\* C20: document.body never holds more than one element of class
\* contextmenu; after a construction none of the menus that were open before
\* it is in document.body, which holds the menu of the new ContextMenu only
C20_AtMostOneMenu ==
    /\ Len(OpenMenus(doc)) <= 1
    /\ call.op = "ContextMenu"
       => /\ \A i \in 1..Len(call.allmenus) :
                \A j \in 1..Len(doc.body) : doc.body[j] # call.allmenus[i]
          /\ ~call.error
             => OpenMenus(doc) = <<GetMenu(doc, menus[Len(menus)])>>

\* a ContextMenu is constructed while the menu of another one is open
C20_Witness ==
    /\ call.op = "ContextMenu"
    /\ ~call.error
    /\ call.allmenus # <<>>
    /\ Len(menus) = 2
    /\ Len(OpenMenus(doc)) = 1

(***************************************************************************)
(* The registry alone: bindEvent and clearEvents in any order, with names  *)
(* that are nothing but the prefix "on" or begin like it                   *)
(***************************************************************************)

NameOn == <<"o", "n">>
NameO == <<"o">>

\* the arguments of bindEvent: those of Bindings and bindings under the
\* names "on" and "o"
RegistryBindings ==
    Bindings \cup [name : {NameOn, NameO}, type : {Click}, callback : {"f", "g"}]

NextRegistry ==
    \/ \E event \in RegistryBindings : BindEvent(event)
    \/ ClearEvents

SpecRegistry == Init /\ [][NextRegistry]_vars

\* C22: every binding of the registry has a name that is not empty, a type
\* that is not empty and a callback
C22_StoredBindingsComplete ==
    \A i \in 1..Len(EVENTS) : ~Incomplete(EVENTS[i])

(***************************************************************************)
(* The forest of a render against the lines of its template                *)
(***************************************************************************)

\* the elements under the parent container
ForestNodes == UNION {Subtree(r) : r \in Range(doc.body)}

\* the lines of the template that are not blank, trimmed
TemplateLines == NonBlankTrimmed(Split(gen.template, "\n"))

\* line k written with depth markers: a descendant line
IsDescendantLine(k) == Level(Trim(gen.lines[k])) > 0

\* the last line before line k written without depth markers, 0 when there
\* is none: the main line of the block of k
MainLineOf(k) ==
    LET before == {j \in 1..(k - 1) : ~IsDescendantLine(j)}
    IN  IF before = {} THEN 0 ELSE CHOOSE j \in before : \A h \in before : h <= j

\* the places an element has as a child: a parent and an index in its
\* children
PlacesOf(n) ==
    {<<p, i>> \in Nodes \X (1..Len(doc.nodes)) :
        i <= Len(doc.nodes[p].children) /\ doc.nodes[p].children[i] = n}

\* C21: after generate returned, the elements under the parent are one for
\* each line of the template that is not blank; the element of a descendant
\* line is a child at one place, of an element of its own block that was
\* created from an earlier line
C21_OneElementPerLine ==
    gen.pc = "returned" =>
        /\ Len(gen.lines) = Len(TemplateLines)
        /\ Cardinality(ForestNodes) = Len(TemplateLines)
        /\ \A k \in 1..Len(gen.lines) :
              Cardinality({n \in ForestNodes : doc.nodes[n].src = k}) = 1
        /\ \A k \in 1..Len(gen.lines) :
              IsDescendantLine(k) =>
                  /\ MainLineOf(k) # 0
                  /\ Cardinality(PlacesOf(NodeOf(k))) = 1
                  /\ \A place \in PlacesOf(NodeOf(k)) :
                        /\ place[1] \in Subtree(NodeOf(MainLineOf(k)))
                        /\ doc.nodes[place[1]].src < k

====
